---- MODULE Spec2Model ----
(***************************************************************************)
(* GithubETL: the extraction loop (src/src/extractor.py), the orchestrator *)
(* (src/main.py), the transformer (src/src/transformer.py) and the loader  *)
(* (src/src/loader.py) as one sequential state machine.  The GitHub API is *)
(* the environment: every HTTP request is answered by a nondeterministic   *)
(* response.                                                               *)
(***************************************************************************)
EXTENDS Integers, Sequences, FiniteSets, TLC

\* ------------------------------------------------------------------ bounds
\* Longest date list handed to full_etl.
MaxDates == 2
\* Result window of the bounded API: non-empty pages it serves per date.
MaxPages == 2
\* Largest max_retries argument tried (0 .. MaxRetriesBound).
MaxRetriesBound == 3

\* ------------------------------------------------------- program constants
DEFAULT_MAX_RETRIES == 3
DEFAULT_BACKOFF == 3
\* The (max_retries, backoff) arguments tried: every max_retries with the
\* default backoff, and the default max_retries with a smaller backoff.
Configs ==
    { << m, DEFAULT_BACKOFF >> : m \in 0..MaxRetriesBound }
    \cup { << DEFAULT_MAX_RETRIES, 2 >> }
HTTP_OK == 200
HTTP_UNPROCESSABLE == 422
HTTP_SERVER_ERROR == 500
\* status recorded for a request that got no HTTP response at all
NO_RESPONSE == 0
\* a null / NaN cell of a numeric column
Null == 0
\* a null cell of a string column
NullStr == "null"

\* source lines of fetch_page at which a call ends
LINE_RETURN_ITEMS == 54
LINE_RETURN_VALUE_ERROR == 58
LINE_RETURN_422 == 65
LINE_RAISE == 70
LINE_RETURN_EXCEPTION == 75
LINE_RETURN_TRAILING == 76
NOT_RETURNED == 0

\* ------------------------------------------------------------- input data
\* RawItem records as the API returns them (the columns that decide which
\* rows survive the transformer, plus language, which is backfilled).
RawItem(id, archived, disabled, is_template, created_at, owner_id, owner_type, language) ==
    [id |-> id, archived |-> archived, disabled |-> disabled,
     is_template |-> is_template, created_at |-> created_at,
     owner_id |-> owner_id, owner_type |-> owner_type, language |-> language]

R1 == RawItem(1, FALSE, FALSE, FALSE, 11, 7, "User", "Python")
R2 == RawItem(2, FALSE, FALSE, FALSE, 12, 8, "Organization", NullStr)
R3 == RawItem(3, TRUE, FALSE, FALSE, 13, 7, "User", "Go")
R4 == RawItem(4, FALSE, FALSE, FALSE, 14, Null, NullStr, "C")

\* The non-empty pages the API may serve.
PagePool == { <<R1, R2>>, <<R3, R4>> }

\* One answer to one HTTP GET: status (NO_RESPONSE for a connection error or
\* timeout), the kind of body, and the items of a well-formed body.
Response(status, body, its) == [status |-> status, body |-> body, items |-> its]

Responses ==
    { Response(HTTP_OK, "items", p) : p \in PagePool \cup { <<>> } }
    \cup { Response(HTTP_OK, "no_items", <<>>),
           Response(HTTP_OK, "not_dict", <<>>),
           Response(HTTP_OK, "bad_json", <<>>),
           Response(HTTP_UNPROCESSABLE, "error", <<>>),
           Response(HTTP_SERVER_ERROR, "error", <<>>),
           Response(NO_RESPONSE, "none", <<>>) }

Dates == [ i \in 1..MaxDates |-> i ]

\* ------------------------------------------------------------------ state
VARIABLES
    pc,                          \* position of the single thread
    fetch_dates,                 \* full_etl argument
    max_retries, backoff,        \* fetch_page arguments
    apiUnbounded,                \* environment: the API has no result window
    d_idx,                       \* full_etl: index of d in fetch_dates
    all_transformed_dataframes,  \* full_etl: collected fragments
    daily_batch,                 \* full_etl: value fetch_one_date returned
    items, page,                 \* fetch_one_date locals
    retry, page_items, ret_line, \* fetch_page: loop variable, result, exit line
    resps, sleeps,               \* fetch_page call: responses got, backoff sleeps
    fetched, page_sleeps,        \* fetch_one_date call: page fetches, 2.1s sleeps
    extracted, daily,            \* run: dates given to fetch_one_date, batches got
    loaded,                      \* run: tables handed to load_data_to_db
    malformed_seen,              \* run: some date ended on a malformed payload
    error                        \* exception that ended the run, or "none"

vars == << pc, fetch_dates, max_retries, backoff, apiUnbounded, d_idx,
           all_transformed_dataframes, daily_batch, items, page, retry,
           page_items, ret_line, resps, sleeps, fetched, page_sleeps,
           extracted, daily, loaded, malformed_seen, error >>

etlVars == << d_idx, all_transformed_dataframes, daily_batch, extracted, daily,
             loaded, malformed_seen >>
fodVars == << items, page, fetched, page_sleeps >>
fpVars == << retry, page_items, ret_line, resps, sleeps >>
argVars == << fetch_dates, max_retries, backoff, apiUnbounded >>

\* ------------------------------------------------------------ transformer
RECURSIVE Flatten(_)
Flatten(ss) == IF ss = <<>> THEN <<>> ELSE Head(ss) \o Flatten(Tail(ss))

\* filter_columns: drop archived / disabled / template rows, flatten owner,
\* keep the required columns.
filter_columns(items_list) ==
    LET kept == SelectSeq(items_list,
                    LAMBDA r : r.archived = FALSE /\ r.disabled = FALSE
                               /\ r.is_template = FALSE)
    IN [ i \in 1..Len(kept) |->
           [id |-> kept[i].id, created_at |-> kept[i].created_at,
            language |-> kept[i].language, user_id |-> kept[i].owner_id,
            user_type |-> kept[i].owner_type] ]

\* drop_duplicates(subset=['id']): the first row of each id is kept.
RECURSIVE drop_duplicates(_, _)
drop_duplicates(df, seen) ==
    IF df = <<>> THEN <<>>
    ELSE IF Head(df).id \in seen THEN drop_duplicates(Tail(df), seen)
    ELSE << Head(df) >> \o drop_duplicates(Tail(df), seen \cup { Head(df).id })

\* dropna(subset=['id','created_at','user_id','user_type'])
dropna(df) ==
    SelectSeq(df, LAMBDA r : r.id # Null /\ r.created_at # Null
                             /\ r.user_id # Null /\ r.user_type # NullStr)

\* fillna('Unknown') on language
fill_language(df) ==
    [ i \in 1..Len(df) |->
        [ df[i] EXCEPT !.language = IF @ = NullStr THEN "Unknown" ELSE @ ] ]

handle_nulls_and_dupes(df) == fill_language(dropna(drop_duplicates(df, {})))

transform(items_list) ==
    LET df_raw == filter_columns(items_list)
    IN IF df_raw = <<>> THEN df_raw ELSE handle_nulls_and_dupes(df_raw)

\* ------------------------------------------------------------ fetch_page
\* Variant: the range stops one short (range(1, max_retries)).
RetryRange_OneShort(n) == 1..(n - 1)

\* range(1, max_retries+1)
RetryRange(n) == 1..n

\* Variant: another status is taken for the end-of-results signal.
IsEndOfResults_NotFound(status) == status = 404

\* http_err.response.status_code == 422
IsEndOfResults(status) == status = HTTP_UNPROCESSABLE

\* Variant: the last attempt is recognised one attempt early.
IsLastAttempt_OneEarly(r, n) == r = n - 1

\* retry == max_retries
IsLastAttempt(r, n) == r = n

\* Variant: linear instead of exponential backoff (backoff * retry).
BackoffDelay_Linear(b, r) == b * r

\* backoff ** retry
BackoffDelay(b, r) == b ^ r

\* The try body of one attempt, lines 43-54: what the answer makes it do.
Outcome(resp) ==
    IF resp.status = NO_RESPONSE THEN "Exception"            \* requests.get raises
    ELSE IF resp.status >= 400 THEN "HTTPError"              \* raise_for_status
    ELSE IF resp.body = "bad_json" THEN "ValueError"         \* response.json()
    ELSE IF resp.body = "not_dict" THEN "Exception"          \* data.get: AttributeError
    ELSE IF resp.body = "no_items" THEN "ValueError"         \* line 51
    ELSE "return"

\* The environment: a bounded API serves non-empty pages only inside its
\* result window; an unbounded one serves them on every page.
ApiServes(resp) ==
    (resp.status = HTTP_OK /\ resp.body = "items" /\ resp.items # <<>>)
        => (apiUnbounded \/ page <= MaxPages)

\* fetch_page returns `result` at source line `line`.
FpReturn(result, line) ==
    /\ page_items' = result
    /\ ret_line' = line
    /\ pc' = "fp_ret"

\* Variant: the error is swallowed and the page counts as empty.
FpRaise_Swallowed ==
    /\ FpReturn(<<>>, LINE_RAISE)
    /\ UNCHANGED error

\* raise (line 70): neither fetch_one_date nor full_etl catches the error,
\* so the run ends.
FpRaise ==
    /\ ret_line' = LINE_RAISE
    /\ error' = "HTTPError"
    /\ pc' = "aborted"
    /\ UNCHANGED page_items

\* fetch_one_date calls fetch_page (line 87); an empty retry range falls
\* through the for loop to the trailing return.
FetchPageCall ==
    /\ pc = "fod_loop"
    /\ resps' = <<>>
    /\ sleeps' = <<>>
    /\ IF RetryRange(max_retries) # {}
       THEN /\ retry' = 1
            /\ page_items' = <<>>
            /\ ret_line' = NOT_RETURNED
            /\ pc' = "fp_attempt"
       ELSE /\ retry' = 0
            /\ FpReturn(<<>>, LINE_RETURN_TRAILING)
    /\ UNCHANGED << argVars, etlVars, fodVars, error >>

\* lines 43-54: the request succeeds and the payload is well formed.
FetchPageSuccess(resp) ==
    /\ pc = "fp_attempt"
    /\ ApiServes(resp)
    /\ Outcome(resp) = "return"
    /\ resps' = Append(resps, resp)
    /\ FpReturn(resp.items, LINE_RETURN_ITEMS)
    /\ UNCHANGED << argVars, etlVars, fodVars, retry, sleeps, error >>

\* Variant: the validation error is re-raised instead of returning [].
FetchPageValueError_Raises(resp) ==
    /\ pc = "fp_attempt"
    /\ Outcome(resp) = "ValueError"
    /\ resps' = Append(resps, resp)
    /\ ret_line' = LINE_RETURN_VALUE_ERROR
    /\ error' = "ValueError"
    /\ pc' = "aborted"
    /\ UNCHANGED << argVars, etlVars, fodVars, retry, sleeps, page_items >>

\* lines 56-58: except ValueError.
FetchPageValueError(resp) ==
    /\ pc = "fp_attempt"
    /\ Outcome(resp) = "ValueError"
    /\ resps' = Append(resps, resp)
    /\ FpReturn(<<>>, LINE_RETURN_VALUE_ERROR)
    /\ UNCHANGED << argVars, etlVars, fodVars, retry, sleeps, error >>

\* lines 60-71: except HTTPError.
FetchPageHTTPError(resp) ==
    /\ pc = "fp_attempt"
    /\ Outcome(resp) = "HTTPError"
    /\ resps' = Append(resps, resp)
    /\ IF IsEndOfResults(resp.status)
       THEN /\ FpReturn(<<>>, LINE_RETURN_422)
            /\ UNCHANGED << retry, sleeps, error >>
       ELSE IF IsLastAttempt(retry, max_retries)
       THEN /\ FpRaise
            /\ UNCHANGED << retry, sleeps >>
       ELSE /\ sleeps' = Append(sleeps, BackoffDelay(backoff, retry))
            /\ IF retry + 1 \in RetryRange(max_retries)
               THEN /\ retry' = retry + 1
                    /\ pc' = "fp_attempt"
                    /\ UNCHANGED << page_items, ret_line >>
               ELSE /\ FpReturn(<<>>, LINE_RETURN_TRAILING)
                    /\ UNCHANGED retry
            /\ UNCHANGED error
    /\ UNCHANGED << argVars, etlVars, fodVars >>

\* lines 73-75: except Exception.
FetchPageException(resp) ==
    /\ pc = "fp_attempt"
    /\ Outcome(resp) = "Exception"
    /\ resps' = Append(resps, resp)
    /\ FpReturn(<<>>, LINE_RETURN_EXCEPTION)
    /\ UNCHANGED << argVars, etlVars, fodVars, retry, sleeps, error >>

\* -------------------------------------------------------- fetch_one_date
\* Variant: only None ends the pagination (page_items is None).
IsEmptyPage_IsNone(p) == FALSE

\* not page_items
IsEmptyPage(p) == p = <<>>

\* A 200 answer whose payload is not JSON, not a mapping or lacks 'items'.
Malformed(resp) ==
    resp.status = HTTP_OK /\ resp.body \in { "bad_json", "not_dict", "no_items" }

\* The current fetch_page call ended on a malformed payload.
MalformedEnd == resps # <<>> /\ Malformed(resps[Len(resps)])

\* Variant: the new page is put in front of the accumulated items.
Extend_Prepend(its, p) == p \o its

\* items.extend(page_items)
Extend(its, p) == its \o p

\* Against an unbounded API the model stops recording once the page number
\* has passed MaxPages: the loop's control flow reads neither page nor items.
Untracked == apiUnbounded /\ page > MaxPages

\* lines 88-93: the rest of one iteration of the while loop.
FetchOneDateStep ==
    /\ pc = "fp_ret"
    /\ IF IsEmptyPage(page_items)
       THEN /\ daily_batch' = items
            /\ fetched' = Append(fetched, [page |-> page, items |-> page_items])
            /\ pc' = "fod_ret"
            /\ UNCHANGED << items, page, page_sleeps >>
       ELSE /\ IF Untracked
               THEN UNCHANGED << items, page, fetched, page_sleeps >>
               ELSE /\ items' = Extend(items, page_items)
                    /\ page' = page + 1
                    /\ fetched' = Append(fetched, [page |-> page, items |-> page_items])
                    /\ page_sleeps' = page_sleeps + 1
            /\ pc' = "fod_loop"
            /\ UNCHANGED daily_batch
    /\ malformed_seen' = (malformed_seen \/ (IsEmptyPage(page_items) /\ MalformedEnd))
    /\ UNCHANGED << argVars, d_idx, all_transformed_dataframes, extracted,
                    daily, loaded, fpVars, error >>

\* ---------------------------------------------------------------- full_etl
\* df.empty
IsEmptyFrame(df) == df = <<>>

\* Variant: only the last fragment is kept.
Concat_LastOnly(dfs) == IF dfs = <<>> THEN <<>> ELSE dfs[Len(dfs)]

\* pd.concat(all_transformed_dataframes, ignore_index=True)
Concat(dfs) == Flatten(dfs)

\* lines 28-33
FullEtlStart ==
    /\ pc = "etl_start"
    /\ IF fetch_dates = <<>> THEN pc' = "done" ELSE pc' = "etl_loop"
    /\ UNCHANGED << argVars, etlVars, fodVars, fpVars, error >>

\* lines 35-37 and 79-82: the next date is handed to fetch_one_date.
FullEtlNextDate ==
    /\ pc = "etl_loop"
    /\ d_idx <= Len(fetch_dates)
    /\ extracted' = Append(extracted, fetch_dates[d_idx])
    /\ items' = <<>>
    /\ page' = 1
    /\ fetched' = <<>>
    /\ page_sleeps' = 0
    /\ pc' = "fod_loop"
    /\ UNCHANGED << argVars, d_idx, all_transformed_dataframes, daily_batch,
                    daily, loaded, malformed_seen, fpVars, error >>

\* lines 39-49: skip an empty batch, else transform and collect.
FullEtlBatch ==
    /\ pc = "fod_ret"
    /\ daily' = Append(daily, daily_batch)
    /\ IF daily_batch = <<>>
       THEN UNCHANGED all_transformed_dataframes
       ELSE LET daily_df == transform(daily_batch)
            IN IF ~IsEmptyFrame(daily_df)
               THEN all_transformed_dataframes' =
                        Append(all_transformed_dataframes, daily_df)
               ELSE UNCHANGED all_transformed_dataframes
    /\ d_idx' = d_idx + 1
    \* the frames of fetch_one_date and fetch_page are gone
    /\ items' = <<>> /\ page' = 1 /\ fetched' = <<>> /\ page_sleeps' = 0
    /\ retry' = 0 /\ page_items' = <<>> /\ ret_line' = NOT_RETURNED
    /\ resps' = <<>> /\ sleeps' = <<>>
    /\ pc' = "etl_loop"
    /\ UNCHANGED << argVars, daily_batch, extracted, loaded, malformed_seen, error >>

\* lines 51-53 and 59-61: nothing to load.
FullEtlNoData ==
    /\ pc = "etl_loop"
    /\ d_idx > Len(fetch_dates)
    /\ \/ all_transformed_dataframes = <<>>
       \/ IsEmptyFrame(Concat(all_transformed_dataframes))
    /\ pc' = "done"
    /\ UNCHANGED << argVars, etlVars, fodVars, fpVars, error >>

\* lines 57-70 with load_data_to_db (loader.py 10-28): to_sql succeeds or
\* raises, and the loader re-raises.
FullEtlLoad(ok) ==
    /\ pc = "etl_loop"
    /\ d_idx > Len(fetch_dates)
    /\ all_transformed_dataframes # <<>>
    /\ LET final_df == Concat(all_transformed_dataframes)
       IN /\ ~IsEmptyFrame(final_df)
          /\ loaded' = Append(loaded, final_df)
    /\ IF ok
       THEN pc' = "done" /\ UNCHANGED error
       ELSE pc' = "aborted" /\ error' = "PersistenceError"
    /\ UNCHANGED << argVars, d_idx, all_transformed_dataframes, daily_batch,
                    extracted, daily, malformed_seen, fodVars, fpVars >>

\* ------------------------------------------------------- specifications
InitState(unbounded, lengths) ==
    /\ pc = "etl_start"
    /\ \E n \in lengths : fetch_dates = SubSeq(Dates, 1, n)
    /\ \E c \in Configs : max_retries = c[1] /\ backoff = c[2]
    /\ apiUnbounded = unbounded
    /\ d_idx = 1
    /\ all_transformed_dataframes = <<>>
    /\ daily_batch = <<>>
    /\ items = <<>> /\ page = 1
    /\ retry = 0 /\ page_items = <<>> /\ ret_line = NOT_RETURNED
    /\ resps = <<>> /\ sleeps = <<>>
    /\ fetched = <<>> /\ page_sleeps = 0
    /\ extracted = <<>> /\ daily = <<>> /\ loaded = <<>>
    /\ malformed_seen = FALSE
    /\ error = "none"

Init == InitState(FALSE, 0..MaxDates)

\* Runs over at most one date against an API without a result window.
InitLive == InitState(TRUE, 0..1)

Next ==
    \/ FullEtlStart
    \/ FullEtlNextDate
    \/ FetchPageCall
    \/ \E resp \in Responses : FetchPageSuccess(resp)
    \/ \E resp \in Responses : FetchPageValueError(resp)
    \/ \E resp \in Responses : FetchPageHTTPError(resp)
    \/ \E resp \in Responses : FetchPageException(resp)
    \/ FetchOneDateStep
    \/ FullEtlBatch
    \/ FullEtlNoData
    \/ \E ok \in BOOLEAN : FullEtlLoad(ok)

Spec == Init /\ [][Next]_vars

\* The thread keeps running and every request is answered (timeout=10), so a
\* step is taken whenever one is possible.
LiveSpec == InitLive /\ [][Next]_vars /\ WF_vars(Next)

\* ------------------------------------------------- vocabulary of the claims
LastResp == resps[Len(resps)]

\* An HTTP error status other than 422.
Retryable(resp) == resp.status >= 400 /\ resp.status # 422

\* A connection error or a timeout.
NetworkFailure(resp) == resp.status = NO_RESPONSE

\* 422, or a payload that is not a mapping or lacks the 'items' key.
NonRetryable(resp) ==
    \/ resp.status = 422
    \/ resp.status = 200 /\ resp.body \in { "not_dict", "no_items" }

WellFormed(resp) == resp.status = 200 /\ resp.body = "items"

AllRetryable(rs) == \A i \in 1..Len(rs) : Retryable(rs[i])

\* The current call saw max_retries retryable errors in a row.
Exhausted ==
    max_retries >= 1 /\ Len(resps) = max_retries /\ AllRetryable(resps)

RECURSIVE Pow(_, _)
Pow(b, n) == IF n = 0 THEN 1 ELSE b * Pow(b, n - 1)

Defaults == max_retries = DEFAULT_MAX_RETRIES /\ backoff = DEFAULT_BACKOFF

\* The pages of the current fetch_one_date call but the last, in order.
PagesBeforeLast ==
    Flatten([ i \in 1..(Len(fetched) - 1) |-> fetched[i].items ])

\* The cleaned fragment of every date extracted so far, empty ones dropped.
Fragments ==
    SelectSeq([ i \in 1..Len(daily) |->
                  IF daily[i] = <<>> THEN <<>> ELSE transform(daily[i]) ],
              LAMBDA df : df # <<>>)

InExtractor == pc \in { "fod_loop", "fp_attempt", "fp_ret" }

\* ------------------------------------------------------------------ claims

\* C1: with max_retries >= 1, N retryable HTTP errors followed by a well-formed
\* page make fetch_page return that page's items after N+1 requests when
\* N < max_retries; max_retries retryable errors in a row make it raise after
\* exactly max_retries requests without returning a value.
C1_RetryThenSuccessOrRaise ==
    max_retries >= 1 =>
        /\ (resps # <<>> /\ AllRetryable(resps)) =>
              /\ Len(resps) <= max_retries
              /\ Len(resps) < max_retries =>
                    /\ pc = "fp_attempt"
                    /\ retry = Len(resps) + 1
                    /\ ret_line = NOT_RETURNED
              /\ Len(resps) = max_retries =>
                    /\ pc = "aborted"
                    /\ error = "HTTPError"
                    /\ ret_line = LINE_RAISE
                    /\ page_items = <<>>
        /\ (resps # <<>> /\ WellFormed(LastResp)
                /\ AllRetryable(SubSeq(resps, 1, Len(resps) - 1))) =>
              /\ Len(resps) - 1 < max_retries
              /\ pc \in { "fp_ret", "fod_loop", "fod_ret" }
              /\ ret_line = LINE_RETURN_ITEMS
              /\ page_items = LastResp.items
              /\ error = "none"

C1_Witness ==
    /\ pc = "fp_ret"
    /\ max_retries = 3
    /\ Len(resps) = 3
    /\ AllRetryable(SubSeq(resps, 1, 2))
    /\ WellFormed(LastResp)
    /\ page_items = << R1, R2 >>

\* C2: a 422, a payload that is not a mapping or one without 'items' makes
\* fetch_page return an empty sequence at once: no raise, no backoff sleep
\* after that response, no further request.
C2_NonRetryableReturnsEmpty ==
    (resps # <<>> /\ NonRetryable(LastResp)) =>
        /\ pc \in { "fp_ret", "fod_ret" }
        /\ ret_line \in { LINE_RETURN_VALUE_ERROR, LINE_RETURN_422, LINE_RETURN_EXCEPTION }
        /\ page_items = <<>>
        /\ error = "none"
        /\ Len(sleeps) = Len(resps) - 1

C2_Witness ==
    /\ pc = "fp_ret"
    /\ max_retries = 3
    /\ Len(resps) = 2
    /\ Retryable(resps[1])
    /\ resps[2].status = 422

\* C3: when fetch_one_date returns after k non-empty pages and an empty one,
\* its result is P1 .. Pk concatenated in order, the pages were requested as
\* 1 .. k+1, k+1 fetches were made and k inter-page sleeps.
C3_PaginationResult ==
    pc = "fod_ret" =>
        /\ Len(fetched) >= 1
        /\ \A i \in 1..Len(fetched) :
              /\ fetched[i].page = i
              /\ (fetched[i].items = <<>>) <=> (i = Len(fetched))
        /\ daily_batch = PagesBeforeLast
        /\ page_sleeps = Len(fetched) - 1

C3_Witness ==
    /\ pc = "fod_ret"
    /\ Len(fetched) = 3
    /\ fetched[1].items = << R3, R4 >>
    /\ fetched[2].items = << R1, R2 >>
    /\ daily_batch = << R3, R4, R1, R2 >>

C5_FailFast ==
    /\ [](Exhausted =>
            /\ pc = "aborted"
            /\ error = "HTTPError"
            /\ loaded = <<>>
            /\ Len(extracted) = d_idx
            /\ Len(daily) = d_idx - 1)
    /\ [][Exhausted => UNCHANGED vars]_vars

C5_Witness ==
    /\ Exhausted
    /\ pc = "aborted"
    /\ d_idx = 2
    /\ Len(fetch_dates) = 2
    /\ all_transformed_dataframes # <<>>

\* C6 as stated: every call of fetch_one_date eventually leaves its loop.
C6_AlwaysTerminates == InExtractor ~> ~InExtractor

\* C6 as amended: a call of fetch_one_date leaves its loop unless the API
\* keeps answering with non-empty pages forever.
C6_TerminatesUnlessEndlessPages ==
    \/ InExtractor ~> ~InExtractor
    \/ []<>(pc = "fp_ret" /\ page_items # <<>>)

C6_Witness ==
    /\ pc = "fod_ret"
    /\ apiUnbounded
    /\ page > MaxPages
    /\ resps # <<>>
    /\ LastResp.status = 422

\* C7 as stated: a transient failure of a request (a network failure or an
\* HTTP error other than 422) is followed by a backoff sleep and another
\* attempt, or by the error being raised when it was the last attempt.
C7_TransientRetried ==
    (max_retries >= 1 /\ resps # <<>>
        /\ (NetworkFailure(LastResp) \/ Retryable(LastResp))) =>
        \/ /\ Len(resps) < max_retries
           /\ pc = "fp_attempt"
           /\ Len(sleeps) = Len(resps)
        \/ /\ Len(resps) = max_retries
           /\ pc = "aborted"

\* C8 as stated: with the defaults a call that uses all its attempts waits
\* 3s, 9s and 27s.
C8_ThreeWaits ==
    (Defaults /\ Exhausted) => sleeps = << 3, 9, 27 >>

\* C8 as amended: the wait after failed attempt a is backoff ** a and there
\* is none after the last attempt, so with the defaults the waits of a call
\* are 3s and 9s.
C8_BackoffWaits ==
    /\ \A a \in 1..Len(sleeps) : sleeps[a] = Pow(backoff, a)
    /\ max_retries >= 1 => Len(sleeps) <= max_retries - 1
    /\ Exhausted => Len(sleeps) = max_retries - 1
    /\ (Defaults /\ Exhausted) => sleeps = << 3, 9 >>

C8_Witness ==
    /\ Defaults
    /\ Exhausted
    /\ pc = "aborted"
    /\ sleeps = << 3, 9 >>

\* C9: a malformed payload on page k ends the date, not the run:
\* fetch_one_date returns the items of pages 1 .. k-1, full_etl moves on to
\* the next date, and a run that ends normally after it has loaded what was
\* collected.
C9_MalformedIsLocal ==
    /\ [](MalformedEnd =>
            /\ pc \in { "fp_ret", "fod_ret" }
            /\ error = "none"
            /\ page_items = <<>>
            /\ pc = "fod_ret" =>
                  /\ daily_batch = PagesBeforeLast
                  /\ Len(fetched) = page)
    /\ [][(MalformedEnd /\ pc = "fp_ret") =>
            (pc' = "fod_ret" /\ daily_batch' = items)]_vars
    /\ [][(MalformedEnd /\ pc = "fod_ret") =>
            (pc' = "etl_loop" /\ d_idx' = d_idx + 1 /\ error' = "none"
             /\ daily' = Append(daily, daily_batch))]_vars
    /\ []((malformed_seen /\ pc = "done") =>
            /\ Len(extracted) = Len(fetch_dates)
            /\ Len(loaded) = IF Fragments = <<>> THEN 0 ELSE 1)

C9_Witness ==
    /\ pc = "done"
    /\ malformed_seen
    /\ Len(fetch_dates) = 2
    /\ daily[1] = << R1, R2 >>
    /\ daily[2] # <<>>
    /\ Len(loaded) = 1

\* C10 as stated: for every max_retries a call never leaves fetch_page by
\* the trailing return, and never returns without having issued a request.
C10_TrailingReturnDead ==
    /\ ret_line # LINE_RETURN_TRAILING
    /\ pc = "fp_ret" => resps # <<>>

\* C10 as amended: that holds for every max_retries >= 1.
C10_TrailingReturnDeadIfPositive ==
    max_retries >= 1 =>
        /\ ret_line # LINE_RETURN_TRAILING
        /\ pc = "fp_ret" => resps # <<>>

C10_Witness ==
    /\ pc = "fp_ret"
    /\ max_retries = 1
    /\ Len(resps) = 1

====
